---- MODULE Spec2Model ----
(***************************************************************************)
(* Model of pymeasure/instruments/keithley/keithley2700.py:                *)
(*   - KeithleyData.__init__, the decoder of a measurement transfer;       *)
(*   - Keithley2700, the SCPI facade over a transport (write / ask).       *)
(* Texts are sequences of one-character strings, so that str.replace,      *)
(* str.split and the numeric conversions are computed character by         *)
(* character.                                                              *)
(***************************************************************************)
EXTENDS Integers, Sequences, FiniteSets, TLC

VARIABLES
    data_string,    \* KeithleyData argument: the raw transfer text
    elements,       \* KeithleyData argument: the declared data elements
    format_string,  \* KeithleyData argument: the transfer format
    units,          \* KeithleyData.UNITS as the constructor iterates it
    obj,            \* the attributes of self when __init__ returns or raises
    inst_mode,      \* the measurement mode latched in the instrument
    calls,          \* the transport calls of the operation in progress, in order
    op,             \* the Keithley2700 operation in progress and its argument
    pc,             \* where that operation stands
    mode,           \* its local variable mode
    code,           \* the SCPI code _mode_command returned to it
    result          \* what it returned or raised

dvars == <<data_string, elements, format_string, units, obj>>

fvars == <<inst_mode, calls, op, pc, mode, code, result>>

vars == <<data_string, elements, format_string, units, obj,
          inst_mode, calls, op, pc, mode, code, result>>

-----------------------------------------------------------------------------
(* Bounds of the explored inputs.                                          *)

MaxFields == 4

MaxElements == 3

MaxChunks == 4

-----------------------------------------------------------------------------
(* Generic helpers on sequences.                                           *)

Contains(s, x) == \E i \in 1..Len(s) : s[i] = x

RECURSIVE Concat(_)
Concat(ss) == IF ss = <<>> THEN <<>> ELSE Head(ss) \o Concat(Tail(ss))

RECURSIVE Join(_)
Join(fs) ==
    IF fs = <<>> THEN <<>>
    ELSE IF Len(fs) = 1 THEN fs[1]
    ELSE fs[1] \o <<",">> \o Join(Tail(fs))

Distinct(s) == \A i, j \in 1..Len(s) : i # j => s[i] # s[j]

SeqsUpTo(S, n) == UNION {[1..k -> S] : k \in 0..n}

-----------------------------------------------------------------------------
(* KeithleyData                                                            *)

UNITS ==
    << <<"A","D","C">>, <<"A","A","C">>, <<"V","D","C">>, <<"V","A","C">>,
       <<"S","E","C","S">>, <<"H","Z">>, <<"S","E","C">>,
       <<"R","D","N","G","#">>, <<"L","I","M","I","T","S">> >>

\* The element kinds in the order in which __init__ tests them.
KINDS == <<"readings", "timestamp", "reading_number", "channel", "limits">>

DATA_ELEMENTS == {"readings", "timestamp", "units", "reading_number", "channel", "limits"}

DATA_FORMAT == {"ascii", "single", "double"}

\* str.replace(unit, '', 1): the first occurrence only.
RECURSIVE ReplaceFirst(_, _)
ReplaceFirst(s, unit) ==
    IF Len(s) < Len(unit) THEN s
    ELSE IF SubSeq(s, 1, Len(unit)) = unit
         THEN SubSeq(s, Len(unit) + 1, Len(s))
         ELSE <<Head(s)>> \o ReplaceFirst(Tail(s), unit)

\* str.replace(unit, ''): every non-overlapping occurrence, scanning from the left.
RECURSIVE Replace(_, _)
Replace(s, unit) ==
    IF Len(s) < Len(unit) THEN s
    ELSE IF SubSeq(s, 1, Len(unit)) = unit
         THEN Replace(SubSeq(s, Len(unit) + 1, Len(s)), unit)
         ELSE <<Head(s)>> \o Replace(Tail(s), unit)

\* for unit in self.UNITS: data_string = data_string.replace(unit, '')
RECURSIVE StripUnits(_, _)
StripUnits(us, s) ==
    IF us = <<>> THEN s ELSE StripUnits(Tail(us), Replace(s, Head(us)))

\* data_string.split(','): the empty text splits into one empty field.
RECURSIVE Split(_)
Split(s) ==
    IF ~Contains(s, ",") THEN <<s>>
    ELSE LET i == CHOOSE k \in 1..Len(s) :
                      s[k] = "," /\ \A j \in 1..(k - 1) : s[j] # ","
         IN  <<SubSeq(s, 1, i - 1)>> \o Split(SubSeq(s, i + 1, Len(s)))

SliceFromZero(data, start, count) ==
    [k \in 1..(((Len(data) - 1) \div count) + 1) |-> data[(k - 1) * count + 1]]

\* self.data[start::count], start zero-based, count >= 1.
Slice(data, start, count) ==
    LET n == IF start >= Len(data) THEN 0
             ELSE ((Len(data) - start - 1) \div count) + 1
    IN  [k \in 1..n |-> data[start + (k - 1) * count + 1]]

DigitChars == <<"0", "1", "2", "3", "4", "5", "6", "7", "8", "9">>

IsDigit(c) == Contains(DigitChars, c)

DigitVal(c) == (CHOOSE i \in 1..Len(DigitChars) : DigitChars[i] = c) - 1

\* A decimal literal float() accepts over the characters of the texts
\* explored here (digits, '.', ',' and the letters of the unit tokens, which
\* can form no exponent, 'inf' or 'nan'): digits with at most one point.
IsFloatLit(f) ==
    /\ \E i \in 1..Len(f) : IsDigit(f[i])
    /\ \A i \in 1..Len(f) : IsDigit(f[i]) \/ f[i] = "."
    /\ Cardinality({i \in 1..Len(f) : f[i] = "."}) <= 1

\* A literal int() accepts: digits only.
IsIntLit(f) == Len(f) > 0 /\ \A i \in 1..Len(f) : IsDigit(f[i])

RECURSIVE DigitsValue(_)
DigitsValue(f) ==
    IF f = <<>> THEN 0
    ELSE DigitsValue(SubSeq(f, 1, Len(f) - 1)) * 10 + DigitVal(f[Len(f)])

ParseInt(f) == DigitsValue(f)

RECURSIVE Normal(_)
Normal(x) ==
    IF x.e > 0 /\ x.n % 10 = 0 THEN Normal([n |-> x.n \div 10, e |-> x.e - 1])
    ELSE x

\* The float a literal denotes, as n / 10^e with the trailing zeros dropped:
\* "1", "1." and "1.0" are the same number.
ParseFloat(f) ==
    LET p == IF Contains(f, ".") THEN CHOOSE i \in 1..Len(f) : f[i] = "."
             ELSE Len(f) + 1
    IN  Normal([n |-> DigitsValue(SubSeq(f, 1, p - 1) \o SubSeq(f, p + 1, Len(f))),
                e |-> IF p > Len(f) THEN 0 ELSE Len(f) - p])

\* The length of the longest prefix of f that is a decimal literal.
NumPrefixLen(f) ==
    LET ks == {k \in 1..Len(f) : IsFloatLit(SubSeq(f, 1, k))}
    IN  IF ks = {} THEN 0 ELSE CHOOSE k \in ks : \A j \in ks : j <= k

\* np.fromstring(','.join(fields), sep=',', dtype=np.float): the numbers
\* read up to the first place where the text is no number followed by a
\* separator or the end; it raises nothing (numpy < 1.24, the releases that
\* still define np.float).
RECURSIVE FromString(_)
FromString(fields) ==
    IF fields = <<>> THEN <<>>
    ELSE LET f == Head(fields)
             k == NumPrefixLen(f)
         IN  IF k = 0 THEN <<>>
             ELSE IF k < Len(f) THEN <<ParseFloat(SubSeq(f, 1, k))>>
             ELSE <<ParseFloat(f)>> \o FromString(Tail(fields))

ToByteSaturating(v) == IF v > 127 THEN 127 ELSE v

\* np.byte(v): a Python int stored in a signed 8-bit integer wraps.
ToByte(v) == ((v + 128) % 256) - 128

\* limits & mask on a signed 8-bit value (two's complement), nonzero as bool;
\* mask is a single bit.
BitSet(b, mask) == ((b % 256) \div mask) % 2 = 1

\* Whether np.array(col, dtype=...) of the kind converts every field.
Convertible(kind, col) ==
    CASE kind = "readings"       -> TRUE
      [] kind = "timestamp"      -> \A i \in 1..Len(col) : IsFloatLit(col[i])
      [] kind = "reading_number" -> \A i \in 1..Len(col) : IsIntLit(col[i])
      [] kind = "channel"        -> TRUE
      [] kind = "limits"         -> \A i \in 1..Len(col) : IsIntLit(col[i])

\* self before the ASCII branch: lines 63-76.
Unset(ds, els, fmt) ==
    [status |-> "raised", error |-> "", data_string |-> ds, elements |-> els,
     format_string |-> fmt, set |-> {}, data |-> <<>>,
     readings |-> <<>>, timestamps |-> <<>>, reading_numbers |-> <<>>,
     channels |-> <<>>, limits |-> <<>>, limits_high2 |-> <<>>,
     limits_low2 |-> <<>>, limits_high1 |-> <<>>, limits_low1 |-> <<>>]

\* The assignments of one 'if <kind> in self.elements' block.
Store(self, kind, col) ==
    LET s == [self EXCEPT !.set = @ \cup {kind}] IN
    CASE kind = "readings" ->
            [s EXCEPT !.readings = FromString(col)]
      [] kind = "timestamp" ->
            [s EXCEPT !.timestamps = [i \in 1..Len(col) |-> ParseFloat(col[i])]]
      [] kind = "reading_number" ->
            [s EXCEPT !.reading_numbers = [i \in 1..Len(col) |-> ParseInt(col[i])]]
      [] kind = "channel" ->
            [s EXCEPT !.channels = col]
      [] kind = "limits" ->
            LET lim == [i \in 1..Len(col) |-> ToByte(ParseInt(col[i]))] IN
            [s EXCEPT !.limits = lim,
                      !.limits_high2 = [i \in 1..Len(col) |-> BitSet(lim[i], 1)],
                      !.limits_low2 = [i \in 1..Len(col) |-> BitSet(lim[i], 2)],
                      !.limits_high1 = [i \in 1..Len(col) |-> BitSet(lim[i], 4)],
                      !.limits_low1 = [i \in 1..Len(col) |-> BitSet(lim[i], 8)]]

\* Lines 89-109: the blocks in their fixed order, start counting the kinds
\* already taken; a slice with step 0 or a failed conversion raises
\* ValueError and leaves self as it was.
RECURSIVE ConvertFrom(_, _, _, _)
ConvertFrom(self, i, start, count) ==
    IF i > Len(KINDS) THEN [self EXCEPT !.status = "ok"]
    ELSE IF ~Contains(self.elements, KINDS[i])
         THEN ConvertFrom(self, i + 1, start, count)
    ELSE IF count = 0 THEN [self EXCEPT !.error = "ValueError"]
    ELSE LET col == Slice(self.data, start, count) IN
         IF ~Convertible(KINDS[i], col) THEN [self EXCEPT !.error = "ValueError"]
         ELSE ConvertFrom(Store(self, KINDS[i], col), i + 1, start + 1, count)

FieldCountNoDecrement(els) == Len(els)

\* len(self.elements), minus one when 'units' is among them: lines 80-83.
FieldCount(els) == IF Contains(els, "units") THEN Len(els) - 1 ELSE Len(els)

IsAsciiOrSingle(fmt) == fmt # "double"

\* self.format_string == 'ascii': line 78.
IsAscii(fmt) == fmt = "ascii"

\* KeithleyData.__init__: self as it returns (status "ok") or raises.
KeithleyData(ds, els, fmt, us) ==
    LET self == Unset(ds, els, fmt) IN
    IF IsAscii(fmt)
    THEN LET cleaned == IF Contains(els, "units") THEN StripUnits(us, ds) ELSE ds
         IN  ConvertFrom([self EXCEPT !.data = Split(cleaned)], 1, 0, FieldCount(els))
    ELSE [self EXCEPT !.error = "NotImplementedError"]

NotBuilt == [Unset(<<>>, <<>>, "") EXCEPT !.status = "none"]

Construct ==
    /\ obj.status = "none"
    /\ obj' = KeithleyData(data_string, elements, format_string, units)
    /\ UNCHANGED <<data_string, elements, format_string, units>>
    /\ UNCHANGED fvars

-----------------------------------------------------------------------------
(* Keithley2700                                                            *)

MODES ==
    [m \in {"current", "current ac", "voltage", "voltage ac", "resistance",
            "resistance 4W", "period", "frequency", "temperature", "continuity"} |->
        CASE m = "current"       -> "CURR:DC"
          [] m = "current ac"    -> "CURR:AC"
          [] m = "voltage"       -> "VOLT:DC"
          [] m = "voltage ac"    -> "VOLT:AC"
          [] m = "resistance"    -> "RES"
          [] m = "resistance 4W" -> "FRES"
          [] m = "period"        -> "PER"
          [] m = "frequency"     -> "FREQ"
          [] m = "temperature"   -> "TEMP"
          [] m = "continuity"    -> "CONT"]

\* A number m * 10^e; range values keep 10 <= m <= 99, so that they compare
\* by exponent, then mantissa.
Num(m, e) == [m |-> m, e |-> e]

Whole(n) == [m |-> n, e |-> 0]

Leq(a, b) == a.e < b.e \/ (a.e = b.e /\ a.m <= b.m)

OhmRanges ==
    {Num(10, 1), Num(10, 2), Num(10, 3), Num(10, 4), Num(10, 5), Num(10, 6), Num(10, 7)}

RANGES ==
    [m \in {"current", "current ac", "voltage", "voltage ac", "resistance",
            "resistance 4W"} |->
        CASE m = "current"       -> {Num(20, -3), Num(10, -2), Num(10, -1), Num(30, -1)}
          [] m = "current ac"    -> {Num(10, -1), Num(30, -1)}
          [] m = "voltage"       -> {Num(10, -2), Num(10, -1), Num(10, 0), Num(10, 1), Num(10, 2)}
          [] m = "voltage ac"    -> {Num(10, -2), Num(10, -1), Num(10, 0), Num(10, 1), Num(75, 1)}
          [] m = "resistance"    -> OhmRanges
          [] m = "resistance 4W" -> OhmRanges]

DIGITS ==
    [m \in {"current", "current ac", "voltage", "voltage ac", "resistance",
            "resistance 4W", "frequency", "period", "temperature"} |-> <<4, 7>>]

\* validators.truncated_range(value, [lo, hi]): value clamped into lo..hi.
truncated_range(value, bounds) ==
    IF bounds[1] <= value /\ value <= bounds[2] THEN value
    ELSE IF value > bounds[2] THEN bounds[2]
    ELSE bounds[1]

\* validators.truncated_discrete_set(value, values): the smallest of the
\* values that is at least value, the largest of them when there is none.
truncated_discrete_set(value, values) ==
    IF \E v \in values : Leq(value, v)
    THEN CHOOSE v \in values : Leq(value, v) /\ \A w \in values : Leq(value, w) => Leq(v, w)
    ELSE CHOOSE v \in values : \A w \in values : Leq(w, v)

\* validators.strict_discrete_set(value, values): value when it is one of
\* the values, ValueError otherwise.
strict_discrete_set_ok(value, values) == value \in values

\* One transport call: write(text) or ask(text) with the reply it got. The
\* text is head, cmd and arg put together, head being the mode code in it.
Write(head, cmd, arg) ==
    [call |-> "write", head |-> head, cmd |-> cmd, arg |-> arg, reply |-> <<>>]

Ask(head, cmd, reply) ==
    [call |-> "ask", head |-> head, cmd |-> cmd, arg |-> <<>>, reply |-> reply]

\* The mode name a reply to SENS:FUNC? stands for (map_values, inverted).
ModeOfCode(c) == CHOOSE m \in DOMAIN MODES : MODES[m] = c

\* Reading the property mode: ask SENS:FUNC?, strip the quotes, map the code
\* back to the mode name. The instrument replies with its latched mode.
ModeQuery == Ask("", "SENS:FUNC?", <<MODES[inst_mode]>>)

ModeRead == ModeOfCode(ModeQuery.reply[1])

_mode_command(m) == MODES[m]

PropertyOps ==
    {"get_range", "set_range", "get_auto_range", "set_auto_range",
     "get_digits", "set_digits"}

CheckedModesDigits(name) == DOMAIN DIGITS

\* The table whose keys the operation tests mode against.
CheckedModes(name) ==
    IF name = "get_digits" THEN DOMAIN DIGITS ELSE DOMAIN RANGES

\* The operations that call _mode_command(None), which reads the property
\* mode again; range.setter and digits.setter pass their local mode.
ModeCommandNone(name) ==
    name \in {"get_range", "get_auto_range", "set_auto_range", "get_digits"}

RangeRequests == {Num(50, -3), Num(10, 0), Num(20, 2)}

DigitsRequests == 3..8

SampleRequests == {0 - 1, 0, 1, 2, 55000, 55001}

ModeRequests == DOMAIN MODES \cup {"capacitance"}

\* Replies of the instrument to a setting query and to :READ?.
SettingReplies == { <<"0">>, <<"1">>, <<"7">> }

ReadReplies == { <<"1">>, <<"1", ",", "2">> }

Requests ==
    [name : {"get_range", "get_auto_range", "get_digits"}, arg : {<<>>}]
        \cup [name : {"set_range"}, arg : {<<v>> : v \in RangeRequests}]
        \cup [name : {"set_auto_range"}, arg : {<<TRUE>>, <<FALSE>>}]
        \cup [name : {"set_digits"}, arg : {<<v>> : v \in DigitsRequests}]
        \cup [name : {"set_mode"}, arg : {<<m>> : m \in ModeRequests}]
        \cup [name : {"multi_point_measurement"}, arg : {<<n>> : n \in SampleRequests}]

NoResult == [status |-> "none", value |-> <<>>]

Returned(v) == [status |-> "ok", value |-> v]

Raised(e) == [status |-> e, value |-> <<>>]

FacadeInit ==
    /\ inst_mode = "voltage"
    /\ calls = <<>>
    /\ op = [name |-> "none", arg |-> <<>>]
    /\ pc = "idle"
    /\ mode = ""
    /\ code = ""
    /\ result = NoResult

\* The caller starts an operation; the transport's record starts empty.
Call ==
    /\ pc \in {"idle", "done"}
    /\ \E r \in Requests :
          /\ op' = r
          /\ pc' = CASE r.name \in PropertyOps -> "mode"
                     [] r.name = "set_mode" -> "set_mode"
                     [] r.name = "multi_point_measurement" -> "clear"
    /\ calls' = <<>>
    /\ mode' = ""
    /\ code' = ""
    /\ result' = NoResult
    /\ UNCHANGED inst_mode
    /\ UNCHANGED dvars

\* mode = self.mode, then 'if mode in <table>' with its else branch.
ReadMode ==
    /\ pc = "mode"
    /\ calls' = Append(calls, ModeQuery)
    /\ mode' = ModeRead
    /\ IF ModeRead \in CheckedModes(op.name)
       THEN /\ pc' = IF ModeCommandNone(op.name) THEN "mode_command" ELSE "send"
            /\ code' = IF ModeCommandNone(op.name) THEN "" ELSE _mode_command(ModeRead)
            /\ result' = result
       ELSE /\ pc' = "done"
            /\ code' = code
            /\ result' = Raised("ValueError")
    /\ UNCHANGED <<inst_mode, op>>
    /\ UNCHANGED dvars

\* self._mode_command(None): mode = self.mode once more, then MODES[mode].
ModeCommand ==
    /\ pc = "mode_command"
    /\ calls' = Append(calls, ModeQuery)
    /\ code' = _mode_command(ModeRead)
    /\ pc' = "send"
    /\ UNCHANGED <<inst_mode, op, mode, result>>
    /\ UNCHANGED dvars

\* The value a setter formats into its command, or the error it raises.
SetterValue(name, m, arg) ==
    CASE name = "set_range" ->
            IF m \in DOMAIN RANGES
            THEN Returned(<<truncated_discrete_set(arg[1], RANGES[m])>>)
            ELSE Raised("KeyError")
      [] name = "set_auto_range" ->
            Returned(<<truncated_discrete_set(Whole(IF arg[1] THEN 1 ELSE 0),
                                              {Whole(0), Whole(1)})>>)
      [] name = "set_digits" ->
            IF m \in DOMAIN DIGITS
            THEN Returned(<<Whole(truncated_range(arg[1], DIGITS[m]))>>)
            ELSE Raised("KeyError")

Command(name) ==
    CASE name = "get_range"      -> ":RANGe?"
      [] name = "set_range"      -> ":RANGe "
      [] name = "get_auto_range" -> ":RANGe:AUTO?"
      [] name = "set_auto_range" -> ":RANGe:AUTO "
      [] name = "get_digits"     -> ":DIGits?"
      [] name = "set_digits"     -> ":DIGits "

\* What a getter makes of the reply: float(...), or bool(int(...)).
GetterValue(name, reply) ==
    IF name = "get_auto_range" THEN <<ParseInt(reply) # 0>>
    ELSE <<ParseFloat(reply)>>

\* The setting command itself: a write for a setter, an ask for a getter.
Send ==
    /\ pc = "send"
    /\ pc' = "done"
    /\ IF op.name \in {"set_range", "set_auto_range", "set_digits"}
       THEN LET v == SetterValue(op.name, mode, op.arg) IN
            IF v.status = "ok"
            THEN /\ calls' = Append(calls, Write(code, Command(op.name), v.value))
                 /\ result' = Returned(<<>>)
            ELSE /\ calls' = calls
                 /\ result' = v
       ELSE \E reply \in SettingReplies :
                /\ calls' = Append(calls, Ask(code, Command(op.name), reply))
                /\ result' = Returned(GetterValue(op.name, reply))
    /\ UNCHANGED <<inst_mode, op, mode, code>>
    /\ UNCHANGED dvars

\* mode.setter: strict_discrete_set, then SENS:FUNC '<code>'; the instrument
\* latches the mode.
SetMode ==
    /\ pc = "set_mode"
    /\ pc' = "done"
    /\ IF strict_discrete_set_ok(op.arg[1], DOMAIN MODES)
       THEN /\ calls' = Append(calls, Write(MODES[op.arg[1]], "SENS:FUNC ", <<>>))
            /\ inst_mode' = op.arg[1]
            /\ result' = Returned(<<>>)
       ELSE /\ calls' = calls
            /\ inst_mode' = inst_mode
            /\ result' = Raised("ValueError")
    /\ UNCHANGED <<op, mode, code>>
    /\ UNCHANGED dvars

MultiPointCommandsSwapped(samples) ==
    << Write("", "SAMP:COUN ", <<Whole(truncated_range(samples, <<1, 55000>>))>>),
       Write("", "TRACe:CLEar", <<>>) >>

\* The two writes of multi_point_measurement, in order.
MultiPointCommands(samples) ==
    << Write("", "TRACe:CLEar", <<>>),
       Write("", "SAMP:COUN ", <<Whole(truncated_range(samples, <<1, 55000>>))>>) >>

ClearBuffer ==
    /\ pc = "clear"
    /\ calls' = Append(calls, MultiPointCommands(op.arg[1])[1])
    /\ pc' = "count"
    /\ UNCHANGED <<inst_mode, op, mode, code, result>>
    /\ UNCHANGED dvars

SetSampleCount ==
    /\ pc = "count"
    /\ calls' = Append(calls, MultiPointCommands(op.arg[1])[2])
    /\ pc' = "read"
    /\ UNCHANGED <<inst_mode, op, mode, code, result>>
    /\ UNCHANGED dvars

Read ==
    /\ pc = "read"
    /\ \E reply \in ReadReplies :
          /\ calls' = Append(calls, Ask("", ":READ?", reply))
          /\ result' = Returned(reply)
    /\ pc' = "done"
    /\ UNCHANGED <<inst_mode, op, mode, code>>
    /\ UNCHANGED dvars

\* The mode is changed at the instrument's front panel.
FrontPanel ==
    /\ \E m \in DOMAIN MODES : m # inst_mode /\ inst_mode' = m
    /\ UNCHANGED <<calls, op, pc, mode, code, result>>
    /\ UNCHANGED dvars

NextFacade ==
    \/ Call
    \/ ReadMode
    \/ ModeCommand
    \/ Send
    \/ SetMode
    \/ ClearBuffer
    \/ SetSampleCount
    \/ Read
    \/ FrontPanel

InitFacade ==
    /\ FacadeInit
    /\ data_string = <<>>
    /\ elements = <<>>
    /\ format_string = "ascii"
    /\ units = UNITS
    /\ obj = NotBuilt

SpecFacade == InitFacade /\ [][NextFacade]_vars

-----------------------------------------------------------------------------
(* The inputs explored.                                                    *)

ElementLists == {s \in SeqsUpTo(DATA_ELEMENTS, MaxElements) : Distinct(s)}

FieldTexts == { <<"1">>, <<"2">>, <<"2", ".", "5", "V", "D", "C">> }

FieldedTexts == {<<>>} \cup {Join(fs) : fs \in SeqsUpTo(FieldTexts, MaxFields) \ {<<>>}}

InitDecode ==
    /\ data_string \in FieldedTexts
    /\ elements \in ElementLists
    /\ format_string \in DATA_FORMAT
    /\ units = UNITS
    /\ obj = NotBuilt
    /\ FacadeInit

NextDecode == Construct

SpecDecode == InitDecode /\ [][NextDecode]_vars


\* The decimal text of a natural number, as the instrument sends it.
RECURSIVE Decimal(_)
Decimal(v) ==
    IF v < 10 THEN <<DigitChars[v + 1]>>
    ELSE Decimal(v \div 10) \o <<DigitChars[(v % 10) + 1]>>

MaxLimitValue == 255

SecondLimits == {0, 9, 200}

LimitsElementLists ==
    { <<"limits">>, <<"readings", "limits">>, <<"limits", "readings">> }

\* Transfers of two samples whose limits fields are v and w.
InitLimits ==
    /\ elements \in LimitsElementLists
    /\ \E v \in 0..MaxLimitValue, w \in SecondLimits :
          data_string =
              IF Len(elements) = 1
              THEN Join(<<Decimal(v), Decimal(w)>>)
              ELSE Join(<< <<"1">>, Decimal(v), <<"2">>, Decimal(w) >>)
    /\ format_string = "ascii"
    /\ units = UNITS
    /\ obj = NotBuilt
    /\ FacadeInit

SpecLimits == InitLimits /\ [][NextDecode]_vars

Chunks ==
    { <<"1">>, <<",">>, <<"V", "D", "C">>, <<"S", "E", "C">>, <<"S">>,
      <<"V">>, <<"D", "C">> }

ChunkTexts == {Concat(cs) : cs \in SeqsUpTo(Chunks, MaxChunks)}

Swap(s, i, j) ==
    [k \in 1..Len(s) |-> IF k = i THEN s[j] ELSE IF k = j THEN s[i] ELSE s[k]]

Reverse(s) == [k \in 1..Len(s) |-> s[Len(s) + 1 - k]]

\* Orders of the unit tokens: the code's, each transposition of it, its reverse.
Orders ==
    {UNITS, Reverse(UNITS)}
        \cup {Swap(UNITS, i, j) : i, j \in 1..Len(UNITS)}

InitStrip ==
    /\ data_string \in ChunkTexts
    /\ elements = <<"channel", "units">>
    /\ format_string = "ascii"
    /\ units \in Orders
    /\ obj = NotBuilt
    /\ FacadeInit

SpecStrip == InitStrip /\ [][NextDecode]_vars

-----------------------------------------------------------------------------
(* Properties of KeithleyData.                                             *)

Built == obj.status # "none"

\* The flat fields the constructor splits the text into.
Flat == Split(IF Contains(elements, "units") THEN StripUnits(units, data_string)
              ELSE data_string)

NonUnits(els) == SelectSeq(els, LAMBDA x : x # "units")

IndexOf(s, x) == CHOOSE i \in 1..Len(s) : s[i] = x

\* Zero-based position of a kind among the non-units elements as declared.
DeclaredPos(kind, els) == IndexOf(NonUnits(els), kind) - 1

\* Zero-based position of a kind among the kinds present, in the fixed order
\* readings, timestamp, reading_number, channel, limits.
FixedPos(kind, els) ==
    Cardinality({j \in 1..Len(KINDS) : j < IndexOf(KINDS, kind) /\ Contains(els, KINDS[j])})

Output(o, kind) ==
    CASE kind = "readings"       -> o.readings
      [] kind = "timestamp"      -> o.timestamps
      [] kind = "reading_number" -> o.reading_numbers
      [] kind = "channel"        -> o.channels
      [] kind = "limits"         -> o.limits

ValidFor(kind, f) ==
    CASE kind \in {"readings", "timestamp"}    -> IsFloatLit(f)
      [] kind \in {"reading_number", "limits"} -> IsIntLit(f)
      [] kind = "channel"                      -> TRUE

Value(kind, f) ==
    CASE kind \in {"readings", "timestamp"} -> ParseFloat(f)
      [] kind = "reading_number"            -> ParseInt(f)
      [] kind = "limits"                    -> ToByte(ParseInt(f))
      [] kind = "channel"                   -> f

WholeRecords ==
    /\ Built /\ obj.status = "ok" /\ format_string = "ascii"
    /\ FieldCount(elements) > 0
    /\ Len(Flat) % FieldCount(elements) = 0

Samples == Len(Flat) \div FieldCount(elements)

\* Every kind's sequence is the column at position pos(kind).
ColumnsAt(pos(_)) ==
    \A kind \in {KINDS[i] : i \in {j \in 1..Len(KINDS) : Contains(elements, KINDS[j])}} :
        /\ Len(Output(obj, kind)) = Samples
        /\ \A k \in 0..(Samples - 1) :
              Output(obj, kind)[k + 1] =
                  Value(kind, Flat[k * FieldCount(elements) + pos(kind) + 1])

\* C1 as stated: in a decode of N*fieldCount fields, each kind's sequence is
\* the column at the kind's position among the non-units elements AS DECLARED.
\* (Stated for texts all of whose fields are integer literals, which every
\* kind converts.)
C1_ColumnsAsDeclared ==
    (WholeRecords /\ \A i \in 1..Len(Flat) : IsIntLit(Flat[i]))
        => ColumnsAt(LAMBDA kind : DeclaredPos(kind, elements))

\* C1 amended: in a decode of N*fieldCount fields, each a literal of its
\* column's type, each kind's sequence is the column at the kind's position
\* among the kinds present in the FIXED order readings, timestamp,
\* reading_number, channel, limits, whatever the order of `elements`.
C1_ColumnsInFixedOrder ==
    (/\ WholeRecords
     /\ \A i \in 1..Len(KINDS) : Contains(elements, KINDS[i]) =>
           \A k \in 0..(Samples - 1) :
               ValidFor(KINDS[i],
                        Flat[k * FieldCount(elements) + FixedPos(KINDS[i], elements) + 1]))
        => ColumnsAt(LAMBDA kind : FixedPos(kind, elements))

C1_Witness ==
    /\ WholeRecords
    /\ elements = <<"timestamp", "units", "readings">>
    /\ Samples = 2
    /\ obj.readings = <<ParseFloat(<<"1">>), ParseFloat(<<"2">>)>>
    /\ obj.timestamps = <<ParseFloat(<<"2", ".", "5">>), ParseFloat(<<"1">>)>>

\* C2 as stated: an ASCII decode whose flat field count is no multiple of
\* the per-record field count raises; it returns no record set. (Stated
\* for texts all of whose fields are integer literals, so that nothing but
\* the field count is wrong with them.)
C2_RaggedTextRaises ==
    (/\ Built /\ format_string = "ascii"
     /\ FieldCount(elements) > 0
     /\ Len(Flat) % FieldCount(elements) # 0
     /\ \A i \in 1..Len(Flat) : IsIntLit(Flat[i]))
        => obj.status = "raised"

\* C4: a format other than 'ascii' raises NotImplementedError whatever the
\* text and the elements, with nothing split and nothing converted.
C4_BinaryNotImplemented ==
    (Built /\ format_string # "ascii")
        => /\ obj.status = "raised"
           /\ obj.error = "NotImplementedError"
           /\ obj.data = <<>>
           /\ obj.set = {}

C4_Witness ==
    /\ Built
    /\ format_string = "single"
    /\ obj.error = "NotImplementedError"
    /\ Len(Split(data_string)) = 2
    /\ Len(elements) = 2

\* What a decode yields: everything but the arguments it keeps.
Outputs(o) == [o EXCEPT !.data_string = <<>>, !.elements = <<>>]

Without(els, x) == SelectSeq(els, LAMBDA y : y # x)

\* C5: a decode with 'units' among the elements yields what the decode of
\* the text with every unit token removed yields with 'units' left out.
C5_UnitsEquivalence ==
    (Built /\ Contains(elements, "units"))
        => Outputs(obj) =
               Outputs(KeithleyData(StripUnits(UNITS, data_string),
                                    Without(elements, "units"),
                                    format_string, units))

C5_Witness ==
    /\ Built /\ obj.status = "ok"
    /\ elements = <<"readings", "units", "reading_number">>
    /\ Contains(data_string, "V")
    /\ Len(obj.readings) = 2
    /\ Len(obj.reading_numbers) = 2


\* C3: for a limits field that is the decimal text of v in 0..255 the decode
\* succeeds and the four flags are bits 0..3 of v; bits 4..7 change nothing.
C3_LimitFlags ==
    (Built /\ Contains(elements, "limits") /\ format_string = "ascii")
        => \A k \in 1..Samples : \A v \in 0..MaxLimitValue :
              Flat[(k - 1) * FieldCount(elements) + FixedPos("limits", elements) + 1]
                  = Decimal(v)
              => /\ obj.status = "ok"
                 /\ Len(obj.limits) = Samples
                 /\ obj.limits_high2[k] = ((v % 2) = 1)
                 /\ obj.limits_low2[k] = (((v \div 2) % 2) = 1)
                 /\ obj.limits_high1[k] = (((v \div 4) % 2) = 1)
                 /\ obj.limits_low1[k] = (((v \div 8) % 2) = 1)

C3_Witness ==
    /\ Built /\ obj.status = "ok"
    /\ elements = <<"readings", "limits">>
    /\ data_string = Join(<< <<"1">>, Decimal(249), <<"2">>, Decimal(200) >>)
    /\ obj.limits_high2 = <<TRUE, FALSE>>
    /\ obj.limits_low2 = <<FALSE, FALSE>>
    /\ obj.limits_high1 = <<FALSE, FALSE>>
    /\ obj.limits_low1 = <<TRUE, TRUE>>

\* The text the constructor split, put together again.
Cleaned == Join(obj.data)

Occurs(tok, s) ==
    \E i \in 1..(Len(s) - Len(tok) + 1) : SubSeq(s, i, i + Len(tok) - 1) = tok

\* A field as the instrument sends it: a decimal literal's characters, then
\* at most one unit token.
InstrumentField(f) ==
    \E k \in 0..Len(f) :
        /\ \A i \in 1..k : IsDigit(f[i]) \/ f[i] = "."
        /\ \/ k = Len(f)
           \/ Contains(UNITS, SubSeq(f, k + 1, Len(f)))

InstrumentText(s) == \A i \in 1..Len(Split(s)) : InstrumentField(Split(s)[i])

SECS == <<"S", "E", "C", "S">>

SEC == <<"S", "E", "C">>

\* C9 as stated: whatever the order the tokens are processed in, the cleaned
\* text is the same, and stripping it again leaves it unchanged.
C9_StripAnyOrderIdempotent ==
    (Built /\ obj.status = "ok" /\ Contains(elements, "units"))
        => /\ Cleaned = StripUnits(UNITS, data_string)
           /\ StripUnits(units, Cleaned) = Cleaned

\* C9 amended: for a text whose fields are each a decimal literal followed by
\* at most one unit token, every order that processes 'SECS' before 'SEC'
\* gives the cleaned text the code's order gives, no unit token remains in
\* it, and stripping it again leaves it unchanged.
C9_StripInstrumentText ==
    (/\ Built /\ obj.status = "ok" /\ Contains(elements, "units")
     /\ InstrumentText(data_string)
     /\ IndexOf(units, SECS) < IndexOf(units, SEC))
        => /\ Cleaned = StripUnits(UNITS, data_string)
           /\ \A i \in 1..Len(UNITS) : ~Occurs(UNITS[i], Cleaned)
           /\ StripUnits(units, Cleaned) = Cleaned

C9_Witness ==
    /\ Built /\ obj.status = "ok"
    /\ units = Swap(UNITS, 3, 5)
    /\ data_string = <<"1", "S", "E", "C", "S">>
    /\ InstrumentText(data_string)
    /\ obj.channels = << <<"1">> >>


-----------------------------------------------------------------------------
(* Properties of Keithley2700.                                             *)

IsModeQuery(c) == c.call = "ask" /\ c.cmd = "SENS:FUNC?"

\* The operation has read the mode and found it to be m.
ModeFound == op.name \in PropertyOps /\ mode # ""

\* C6 as stated: setting range in a mode without a range table fails and the
\* transport records no call at all.
C6_RangeRefusedWithoutCall ==
    (ModeFound /\ op.name = "set_range" /\ mode \notin DOMAIN RANGES)
        => /\ pc = "done"
           /\ result.status = "ValueError"
           /\ calls = <<>>

\* C6 amended: setting range in a mode without a range table raises
\* ValueError and writes nothing; the one transport call of the failed
\* operation is the ask SENS:FUNC? that reads the mode.
C6_RangeRefusedWithoutWrite ==
    (ModeFound /\ op.name = "set_range"
     /\ mode \in {"period", "frequency", "temperature", "continuity"})
        => /\ pc = "done"
           /\ result.status = "ValueError"
           /\ Len(calls) = 1
           /\ IsModeQuery(calls[1])
           /\ \A i \in 1..Len(calls) : calls[i].call # "write"

C6_Witness ==
    /\ op.name = "set_range"
    /\ mode = "period"
    /\ pc = "done"
    /\ result.status = "ValueError"
    /\ Len(calls) = 1

Clamp(v, lo, hi) == IF v < lo THEN lo ELSE IF v > hi THEN hi ELSE v

\* C7: setting digits succeeds in every mode DIGITS has a range for, writing
\* '<mode code>:DIGits <v>' with v clamped into 4..7; it raises ValueError
\* only in continuity mode, and then writes no DIGits command.
C7_DigitsInEveryDigitsMode ==
    (op.name = "set_digits" /\ pc = "done")
        => IF mode \in DOMAIN DIGITS
           THEN /\ result.status = "ok"
                /\ Len(calls) = 2
                /\ calls[2] = Write(MODES[mode], ":DIGits ",
                                    <<Whole(Clamp(op.arg[1], 4, 7))>>)
           ELSE /\ mode = "continuity"
                /\ result.status = "ValueError"
                /\ \A i \in 1..Len(calls) : calls[i].cmd # ":DIGits "

\* C8: multi_point_measurement(samples) issues write TRACe:CLEar, write
\* SAMP:COUN n with n = min(max(samples, 1), 55000), ask :READ?, in this
\* order and nothing else, and returns the reply to :READ? unchanged.
C8_MultiPointSequence ==
    (op.name = "multi_point_measurement")
        => LET writes == << Write("", "TRACe:CLEar", <<>>),
                            Write("", "SAMP:COUN ",
                                  <<Whole(Clamp(op.arg[1], 1, 55000))>>) >>
           IN  /\ \A i \in 1..Len(calls) : i <= 2 => calls[i] = writes[i]
               /\ Len(calls) <= 3
               /\ Len(calls) = 3 =>
                     /\ calls[3].call = "ask"
                     /\ calls[3].cmd = ":READ?"
                     /\ calls[3].head = ""
               /\ pc = "done" =>
                     /\ Len(calls) = 3
                     /\ result.status = "ok"
                     /\ result.value = calls[3].reply
               /\ pc # "done" => result.status = "none"

C8_Witness ==
    /\ op.name = "multi_point_measurement"
    /\ op.arg = <<55001>>
    /\ pc = "done"
    /\ calls[2].arg = <<Whole(55000)>>
    /\ result.value = <<"1", ",", "2">>

\* C10: the mode whose code prefixes a RANGe, RANGe:AUTO or DIGits command
\* is the mode that passed the table-membership check, whatever the
\* instrument's mode does between two transport calls of the operation.
C10_PrefixIsCheckedMode ==
    \A i \in 1..Len(calls) :
        (op.name \in PropertyOps /\ ~IsModeQuery(calls[i]))
            => /\ mode \in CheckedModes(op.name)
               /\ calls[i].head = MODES[mode]

====
